---- MODULE Spec2Model ----
(***************************************************************************)
(* Log-driven replication engine of run.py: the day's change log in the    *)
(* source store is fanned out to every destination store of the registry,  *)
(* document trees are copied recursively with merge writes, and each log   *)
(* entry is marked processed after its fan-out.                            *)
(***************************************************************************)
EXTENDS Naturals, Sequences, FiniteSets

VARIABLES
    src,        \* the source store (main_db): document path -> document
    dests,      \* the destination stores: name -> (document path -> document)
    config,     \* the registry document config/Firebase of the source store
    logs,       \* the day's log record logs/<date> of the source store
    user_dbs,   \* the registry built at start-up: destination names in order
    pc,         \* where the process is
    cause,      \* why the last process ended
    snapshot,   \* `logs`: the entries process_logs_for_day read (line 99)
    i,          \* position of the entry loop in snapshot (line 100)
    j,          \* position of the destination loop in user_dbs (line 73)
    run,        \* number of processes started so far
    oplog,      \* history: one record per pass of the destination loop
    marks,      \* history: the (run, entry) pairs whose flag a run has set
    mutated,    \* history: the current run has issued a write, delete or update
    failures,   \* number of store calls that were made to fail so far
    dest0,      \* tree copier runs: the destination store before the first copy
    after1,     \* tree copier runs: the destination store after the first copy
    copies      \* tree copier runs: number of copies made so far

storeVars == <<src, dests>>
procVars == <<config, logs, user_dbs, pc, cause, snapshot, i, j, run, oplog,
              marks, mutated, failures>>
copyVars == <<dest0, after1, copies>>
vars == <<src, dests, config, logs, user_dbs, pc, cause, snapshot, i, j, run,
          oplog, marks, mutated, failures, dest0, after1, copies>>

----------------------------------------------------------------------------
(* Bounds of the model.                                                    *)

\* how many times the tree copier is re-run on the same source tree
MaxCopies == 2
\* how many entries the day's log record holds at most
MaxLogLen == 2
\* how many times the process is started (runs over the same day)
MaxRuns == 2
\* how many store calls are made to fail in one behaviour
MaxFailures == 1

----------------------------------------------------------------------------
(* The document store: the five operations run.py uses on a Firestore      *)
(* client (get, set with merge, delete, stream, collections).              *)

\* Field names and field values of the documents of the model.
Keys == {"status", "qty"}
Vals == {1, 2}

\* A document's fields as Python sees them (to_dict()): a mapping from some
\* of the keys to values.  <<>> is the empty dict.
Dicts == UNION {[K -> Vals] : K \in SUBSET Keys}

\* A document slot of a store: missing (exists = FALSE, no fields), or
\* existing with its fields (possibly none).
MissingDoc == [exists |-> FALSE, fields |-> <<>>]
ExistingDoc(f) == [exists |-> TRUE, fields |-> f]
Docs == {MissingDoc} \cup {ExistingDoc(f) : f \in Dicts}

\* The names of the model's universe: one top-level collection, two
\* documents in it, one sub-collection per nesting level (depth 3).
TopCollection == "orders"
TopIds == <<"A1", "A2">>

\* The (collection, id) slots directly below a path, in listing order (by
\* id): the top-level documents below the store's root <<>>, the documents of
\* the sub-collections below a document.
ChildSlots(p) ==
    IF Len(p) = 0 THEN [k \in DOMAIN TopIds |-> <<TopCollection, TopIds[k]>>]
    ELSE IF Len(p) = 2 THEN << <<"items", "i1">> >>
    ELSE IF Len(p) = 4 THEN << <<"parts", "p1">> >>
    ELSE <<>>

Range(s) == {s[k] : k \in DOMAIN s}

\* the document paths one level below the paths ps
Level(ps) == UNION {{p \o c : c \in Range(ChildSlots(p))} : p \in ps}
TopPaths == Level({<<>>})
Paths == TopPaths \cup Level(TopPaths) \cup Level(Level(TopPaths))

\* q lies strictly below document p
IsBelow(q, p) == Len(q) > Len(p) /\ SubSeq(q, 1, Len(p)) = p

EmptyStore == [p \in Paths |-> MissingDoc]

\* doc_ref.get().to_dict(): the fields, or None for a missing document.  The
\* model gives None and {} the same value <<>>: the code only tests the
\* result's truth.
to_dict(store, p) == store[p].fields

\* `if doc_data:` -- None and the empty dict are both false
Truthy(data) == DOMAIN data # {}

\* doc_ref.set(data, merge=True) with the values added instead of replaced
set_accumulate(store, p, data) ==
    [store EXCEPT ![p] = ExistingDoc(
        [k \in (DOMAIN store[p].fields) \cup (DOMAIN data) |->
            IF k \in DOMAIN data /\ k \in DOMAIN store[p].fields
            THEN store[p].fields[k] + data[k]
            ELSE IF k \in DOMAIN data THEN data[k] ELSE store[p].fields[k]])]

\* doc_ref.set(data): without merge the document is replaced
set_overwrite(store, p, data) ==
    [store EXCEPT ![p] = ExistingDoc(data)]

\* doc_ref.set(data, merge=True): the document exists afterwards, the keys of
\* data take data's values, every other field of the document is kept.
set_merge(store, p, data) ==
    [store EXCEPT ![p] = ExistingDoc(
        [k \in (DOMAIN store[p].fields) \cup (DOMAIN data) |->
            IF k \in DOMAIN data THEN data[k] ELSE store[p].fields[k]])]

\* a delete() that takes the documents of the sub-collections along
delete_doc_recursive(store, p) ==
    [q \in DOMAIN store |-> IF q = p \/ IsBelow(q, p) THEN MissingDoc ELSE store[q]]

\* doc_ref.delete(): the document is gone; the documents of its
\* sub-collections are other documents and stay.  Deleting a missing
\* document is no error.
delete_doc(store, p) == [store EXCEPT ![p] = MissingDoc]

\* doc_ref.collections(): the sub-collections of p that hold a document
\* (also below a missing p).
collections(store, p) ==
    {c[1] : c \in {s \in Range(ChildSlots(p)) :
                      \E q \in Paths : /\ q = p \o s \/ IsBelow(q, p \o s)
                                       /\ store[q].exists}}

\* collection_ref.stream(): a query, so it yields the documents of the
\* collection that exist; a missing document that only owns sub-collections
\* is not among them.
stream(store, p, subcol) ==
    {c[2] : c \in {s \in Range(ChildSlots(p)) :
                      s[1] = subcol /\ store[p \o s].exists}}

----------------------------------------------------------------------------
(* copy_doc_with_subcollections                                            *)

RECURSIVE Flatten(_)
Flatten(ss) == IF ss = <<>> THEN <<>> ELSE Head(ss) \o Flatten(Tail(ss))

\* one destination call: set(data, merge=True) or delete() on a document
SetOp(p, data) == [op |-> "set", path |-> p, data |-> data]
DeleteOp(p) == [op |-> "delete", path |-> p, data |-> <<>>]

\* the copier without the recursion into the sub-collections
copy_writes_shallow(s, sp, dp) ==
    IF Truthy(to_dict(s, sp)) THEN <<SetOp(dp, to_dict(s, sp))>> ELSE <<>>

\* the copy that returns at once when the source document has no data
RECURSIVE copy_writes_skip_empty(_, _, _)
copy_writes_skip_empty(s, sp, dp) ==
    LET doc_data == to_dict(s, sp)
        kids == SelectSeq(ChildSlots(sp),
                          LAMBDA c : /\ c[1] \in collections(s, sp)
                                     /\ c[2] \in stream(s, sp, c[1]))
    IN IF ~Truthy(doc_data) THEN <<>>
       ELSE <<SetOp(dp, doc_data)>> \o
            Flatten([k \in DOMAIN kids |->
                        copy_writes_skip_empty(s, sp \o kids[k], dp \o kids[k])])

\* The set() calls copy_doc_with_subcollections(src_doc_ref, dest_doc_ref)
\* issues, in order: the document's own fields when it has any, then, for
\* every sub-collection of the source document and every document streamed
\* from it, the calls of the recursive copy with both paths extended by the
\* sub-collection name and the document id.
RECURSIVE copy_writes(_, _, _)
copy_writes(s, sp, dp) ==
    LET doc_data == to_dict(s, sp)
        own == IF Truthy(doc_data) THEN <<SetOp(dp, doc_data)>> ELSE <<>>
        kids == SelectSeq(ChildSlots(sp),
                          LAMBDA c : /\ c[1] \in collections(s, sp)
                                     /\ c[2] \in stream(s, sp, c[1]))
    IN own \o Flatten([k \in DOMAIN kids |->
                          copy_writes(s, sp \o kids[k], dp \o kids[k])])

\* the effect of one destination call on the store
apply_op(store, o) ==
    IF o.op = "delete" THEN delete_doc(store, o.path)
    ELSE set_merge(store, o.path, o.data)

\* the store after the first n calls of ops
RECURSIVE apply_ops(_, _, _)
apply_ops(store, ops, n) ==
    IF n = 0 \/ ops = <<>> THEN store
    ELSE apply_ops(apply_op(store, Head(ops)), Tail(ops), n - 1)

\* copy_doc_with_subcollections run to its end against store d
copy_doc_with_subcollections(s, d, sp, dp) ==
    LET ws == copy_writes(s, sp, dp) IN apply_ops(d, ws, Len(ws))

----------------------------------------------------------------------------
(* The tree copier on its own: a source tree and a destination state are   *)
(* drawn, and the copier is run on the tree's root again and again.        *)

DestNames == <<"D1", "D2">>

CopyRoot == <<TopCollection, TopIds[1]>>
CopyPaths == {CopyRoot} \cup {q \in Paths : IsBelow(q, CopyRoot)}
CopyDest == DestNames[1]

\* destination documents the copier may find
DestDocChoices ==
    { MissingDoc,
      ExistingDoc([k \in {"status"} |-> 1]),
      ExistingDoc([k \in {"qty"} |-> 1]),
      ExistingDoc([k \in Keys |-> 2]) }

StoresOver(choices) ==
    {[p \in Paths |-> IF p \in CopyPaths THEN f[p] ELSE MissingDoc] :
        f \in [CopyPaths -> choices]}

\* the process does not run while the copier is examined
ProcIdle ==
    /\ config = [exists |-> FALSE, entries |-> <<>>]
    /\ logs = [exists |-> FALSE, entries |-> <<>>]
    /\ user_dbs = <<>>
    /\ pc = "idle"
    /\ cause = "none"
    /\ snapshot = <<>>
    /\ i = 1
    /\ j = 1
    /\ run = 0
    /\ oplog = <<>>
    /\ marks = {}
    /\ mutated = FALSE
    /\ failures = 0

CopyInit ==
    /\ src \in StoresOver(Docs)
    /\ \E d \in StoresOver(DestDocChoices) :
          /\ dests = [n \in Range(DestNames) |-> d]
          /\ dest0 = d
          /\ after1 = d
    /\ copies = 0
    /\ ProcIdle

CopyTree ==
    /\ copies < MaxCopies
    /\ LET d == copy_doc_with_subcollections(src, dests[CopyDest], CopyRoot, CopyRoot)
       IN /\ dests' = [dests EXCEPT ![CopyDest] = d]
          /\ after1' = IF copies = 0 THEN d ELSE after1
    /\ copies' = copies + 1
    /\ UNCHANGED <<src, dest0>>
    /\ UNCHANGED procVars

CopyNext == CopyTree

CopySpec == CopyInit /\ [][CopyNext]_vars

----------------------------------------------------------------------------
(* Properties of the tree copier (checked under CopySpec).                 *)

\* The documents of the tree the copier is invoked on: the root, and every
\* document streamed from a sub-collection of a document it is invoked on.
RECURSIVE Visited(_, _)
Visited(s, p) ==
    \/ p = CopyRoot
    \/ /\ Len(p) > Len(CopyRoot)
       /\ s[p].exists
       /\ Visited(s, SubSeq(p, 1, Len(p) - 2))

\* the documents the copier writes: visited, with at least one field
Written(s, p) == Visited(s, p) /\ Truthy(to_dict(s, p))

\* destination document d carries every field of source document f
Carries(d, f) ==
    /\ d.exists
    /\ \A k \in DOMAIN f.fields :
          k \in DOMAIN d.fields /\ d.fields[k] = f.fields[k]

\* C8: the tree copy is idempotent: with the source unchanged, every copy
\* after the first leaves the destination exactly as the first copy left it.
C8_IdempotentCopy ==
    copies >= 2 => dests[CopyDest] = after1

\* C8 witness: a second copy has run on a tree whose first copy changed a
\* destination that already held documents.
C8_Witness ==
    /\ copies >= 2
    /\ after1 # dest0
    /\ \E p \in CopyPaths : dest0[p].exists
    /\ \A p \in CopyPaths : src[p].exists /\ Truthy(to_dict(src, p))

\* C9: merge semantics: at every document the copier writes, each key of the
\* source has the source's value, and each key that is not in the source is
\* as it was before the copy (same value, or still absent).
C9_MergeWrite ==
    copies >= 1 =>
        \A p \in CopyPaths : Written(src, p) =>
            /\ dests[CopyDest][p].exists
            /\ DOMAIN dests[CopyDest][p].fields
                  = (DOMAIN dest0[p].fields) \cup (DOMAIN src[p].fields)
            /\ \A k \in DOMAIN dests[CopyDest][p].fields :
                  dests[CopyDest][p].fields[k]
                     = IF k \in DOMAIN src[p].fields
                       THEN src[p].fields[k] ELSE dest0[p].fields[k]

\* C9 witness: the copier wrote a document whose destination held a field
\* the source lacks and another field with a different value.
C9_Witness ==
    /\ copies >= 1
    /\ \E p \in CopyPaths :
          /\ Written(src, p)
          /\ \E k \in DOMAIN dest0[p].fields : k \notin DOMAIN src[p].fields
          /\ \E k \in DOMAIN dest0[p].fields :
                k \in DOMAIN src[p].fields /\ dest0[p].fields[k] # src[p].fields[k]

\* C10 as claimed: after a copy every descendant document of the source tree
\* is at the destination under the same path, carrying the source's fields.
C10_EveryDescendantCopied ==
    copies >= 1 =>
        \A p \in CopyPaths :
            (p # CopyRoot /\ src[p].exists) => Carries(dests[CopyDest][p], src[p])

\* C10 amended: after a copy every document of the tree that has at least one
\* field and is reached through documents that exist at the source is at the
\* destination under the same path, carrying the source's fields; every other
\* document of the destination tree is as it was (a document without fields
\* is not created, the tree below a missing sub-collection document is not
\* visited).
C10_ReachedTreeCopied ==
    copies >= 1 =>
        \A p \in CopyPaths :
            IF Written(src, p)
            THEN Carries(dests[CopyDest][p], src[p])
            ELSE dests[CopyDest][p] = dest0[p]

\* C10 witness: a depth-3 tree with fields at every level was copied into an
\* empty destination.
C10_Witness ==
    /\ copies >= 1
    /\ \A p \in CopyPaths :
          /\ Truthy(to_dict(src, p))
          /\ ~dest0[p].exists
          /\ dests[CopyDest][p] = src[p]
    /\ \E p \in CopyPaths : Len(p) = 6

\* the documents directly below p: one sub-collection down
ChildrenOf(p) == {q \in Paths : IsBelow(q, p) /\ Len(q) = Len(p) + 2}

\* C17: where the copier is invoked on a source document that is absent or
\* has no fields, it writes nothing to the destination document of the same
\* path, and still copies every document of every sub-collection of it:
\* each child that exists with fields is at the destination with its fields.
C17_EmptyDocStillRecurses ==
    copies >= 1 =>
        \A p \in CopyPaths :
            (Visited(src, p) /\ ~Truthy(to_dict(src, p))) =>
                /\ dests[CopyDest][p] = dest0[p]
                /\ \A q \in ChildrenOf(p) :
                      (src[q].exists /\ Truthy(to_dict(src, q)))
                          => Carries(dests[CopyDest][q], src[q])

\* C17 witness: the copier ran on an absent source document whose
\* destination document held fields; one document without fields lies below
\* it, and the documents with fields below both were created at the
\* destination.
C17_Witness ==
    /\ copies >= 1
    /\ ~src[CopyRoot].exists
    /\ dest0[CopyRoot].exists
    /\ dests[CopyDest][CopyRoot] = dest0[CopyRoot]
    /\ \E q \in ChildrenOf(CopyRoot) :
          /\ src[q].exists
          /\ ~Truthy(to_dict(src, q))
          /\ dests[CopyDest][q] = dest0[q]
          /\ \E r \in ChildrenOf(q) :
                /\ Truthy(to_dict(src, r))
                /\ ~dest0[r].exists
                /\ dests[CopyDest][r] = src[r]

----------------------------------------------------------------------------
(* The registry, the log record and the fixtures of the process model.     *)

\* a field the document does not have (dict.get() gives None)
NoField == "<none>"

\* One entry of the day's log record, keyed by id in the record.
LogEntry(id, e) ==
    [id |-> id, collection |-> e.collection, doc |-> e.doc,
     type |-> e.type, processed |-> e.processed]

\* the entries the log record is built from
EntryChoices ==
    { [collection |-> TopCollection, doc |-> TopIds[1], type |-> "update", processed |-> FALSE],
      [collection |-> TopCollection, doc |-> TopIds[1], type |-> "delete", processed |-> FALSE],
      [collection |-> TopCollection, doc |-> NoField,   type |-> NoField,  processed |-> FALSE],
      [collection |-> TopCollection, doc |-> NoField,   type |-> "delete", processed |-> FALSE],
      [collection |-> TopCollection, doc |-> TopIds[1], type |-> "update", processed |-> TRUE],
      [collection |-> NoField,       doc |-> TopIds[1], type |-> "update", processed |-> FALSE] }

NoRecord == [exists |-> FALSE, entries |-> <<>>]

LogChoices ==
    {NoRecord} \cup
    UNION {{[exists |-> TRUE, entries |-> [k \in 1..n |-> LogEntry(k, f[k])]] :
               f \in [1..n -> EntryChoices]} : n \in 0..MaxLogLen}

\* the registry document: destination name -> credential blob (valid or not)
Cred(name, valid) == [name |-> name, valid |-> valid]
RegistryChoices ==
    { NoRecord,
      [exists |-> TRUE, entries |-> <<Cred(DestNames[1], TRUE)>>],
      [exists |-> TRUE, entries |-> <<Cred(DestNames[1], TRUE), Cred(DestNames[2], TRUE)>>],
      [exists |-> TRUE, entries |-> <<Cred(DestNames[1], TRUE), Cred(DestNames[2], FALSE)>>] }

P1 == <<TopCollection, TopIds[1]>>
P2 == <<TopCollection, TopIds[2]>>
P1Item == P1 \o <<"items", "i1">>

\* source stores: orders/A1 = {status} with items/i1 = {qty} and orders/A2;
\* and a store without orders/A1
SrcChoices ==
    { [p \in Paths |->
          IF p = P1 THEN ExistingDoc([k \in {"status"} |-> 1])
          ELSE IF p = P1Item THEN ExistingDoc([k \in {"qty"} |-> 2])
          ELSE IF p = P2 THEN ExistingDoc([k \in {"status"} |-> 2])
          ELSE MissingDoc],
      [p \in Paths |->
          IF p = P2 THEN ExistingDoc([k \in {"qty"} |-> 1]) ELSE MissingDoc] }

\* destination stores at the start: empty, or holding orders/A1 already
DestChoices ==
    { EmptyStore,
      [p \in Paths |->
          IF p = P1 THEN ExistingDoc([k \in {"qty"} |-> 1])
          ELSE IF p = P1Item THEN ExistingDoc([k \in {"status"} |-> 2])
          ELSE MissingDoc] }

----------------------------------------------------------------------------
(* The code of run.py, operation by operation.                             *)

\* lines 37-45: user_dbs is filled in the order of the registry document;
\* init_db_from_json_str raises on a blob that does not decode, nothing
\* catches it at module level, and the process ends there.
RegistryPrefix(entries) ==
    LET bad == {k \in DOMAIN entries : ~entries[k].valid}
        n == IF bad = {} THEN Len(entries)
             ELSE (CHOOSE k \in bad : \A m \in bad : k <= m) - 1
    IN [k \in 1..n |-> entries[k].name]

RegistryRaises(entries) == \E k \in DOMAIN entries : ~entries[k].valid

\* line 101 with the test dropped
is_processed_never(e) == FALSE

\* line 101: log_entry.get("processed")
is_processed(e) == e.processed

\* line 103: log_entry["collection"] raises KeyError when the field is absent
HasCollection(e) == e.collection # NoField

\* line 105: log_entry.get("type", "create")
op_type(e) == IF e.type = NoField THEN "create" ELSE e.type

\* line 76 and 80: `doc_id` is true when the entry names a document
HasDoc(e) == e.doc # NoField

\* copy_entire_collection (lines 61-70): the calls of the tree copier for
\* every document streamed from the source collection
copy_entire_collection_ops(s, collection) ==
    LET docs == SelectSeq(ChildSlots(<<>>),
                          LAMBDA c : c[1] = collection /\ c[2] \in stream(s, <<>>, collection))
    IN Flatten([k \in DOMAIN docs |-> copy_writes(s, docs[k], docs[k])])

\* copy_entire_collection, lines 63-70: `count` when the loop is over, one
\* for every document streamed
copy_entire_collection_count(s, collection) == Cardinality(stream(s, <<>>, collection))

\* What a Python call hands back: <<v>> for `return v`, <<>> for None.
\* copy_entire_collection prints count (line 70) and has no return statement.
copy_entire_collection_returns(s, collection) == <<>>

\* a delete() that refuses a document that is not there
delete_raises_if_missing(store, p) == ~store[p].exists

\* line 77: DocumentReference.delete() is called without precondition; it
\* does not look at the document and does not raise when there is none
delete_raises(store, p) == FALSE

\* line 76: the entry is a delete of one named document
IsDelete(e) == op_type(e) = "delete" /\ HasDoc(e)

\* the pass in which a delete entry without document does nothing
replicate_ops_delete_needs_doc(s, e) ==
    IF op_type(e) = "delete"
    THEN IF HasDoc(e) THEN <<DeleteOp(<<e.collection, e.doc>>)>> ELSE <<>>
    ELSE IF HasDoc(e)
    THEN IF s[<<e.collection, e.doc>>].exists
         THEN copy_writes(s, <<e.collection, e.doc>>, <<e.collection, e.doc>>)
         ELSE <<>>
    ELSE copy_entire_collection_ops(s, e.collection)

\* One pass of the destination loop of replicate_doc_to_all (lines 76-88):
\* the calls it makes on the destination store.
replicate_ops(s, e) ==
    IF IsDelete(e)
    THEN <<DeleteOp(<<e.collection, e.doc>>)>>
    ELSE IF HasDoc(e)
    THEN IF s[<<e.collection, e.doc>>].exists
         THEN copy_writes(s, <<e.collection, e.doc>>, <<e.collection, e.doc>>)
         ELSE <<>>
    ELSE copy_entire_collection_ops(s, e.collection)

\* Where a raised exception can leave the pass: the delete raises before it
\* took effect; a copy raises in any read or write, after any number of its
\* writes.
FailPoints(s, e) ==
    IF IsDelete(e) THEN {0}
    ELSE 0..Len(replicate_ops(s, e))

\* the destination loop with the try around the loop instead of inside it:
\* the first exception ends the fan-out
after_destination_break(ok) ==
    IF ok /\ j < Len(user_dbs)
    THEN [pc |-> "fanout", j |-> j + 1, cause |-> cause]
    ELSE [pc |-> "mark", j |-> Len(user_dbs) + 1, cause |-> cause]

\* the destination loop without the try: the exception of a pass leaves
\* replicate_doc_to_all and process_logs_for_day
after_destination_raise(ok) ==
    IF ~ok THEN [pc |-> "exit", j |-> j, cause |-> "replicate_failed"]
    ELSE IF j < Len(user_dbs) THEN [pc |-> "fanout", j |-> j + 1, cause |-> cause]
    ELSE [pc |-> "mark", j |-> Len(user_dbs) + 1, cause |-> cause]

\* lines 73 and 89-91: the exception of one pass is caught inside the loop;
\* the loop goes on with the next destination, and replicate_doc_to_all
\* returns (to line 107) after the last one, whatever the outcomes were.
after_destination(ok) ==
    IF j < Len(user_dbs) THEN [pc |-> "fanout", j |-> j + 1, cause |-> cause]
    ELSE [pc |-> "mark", j |-> Len(user_dbs) + 1, cause |-> cause]

\* the flag written only when no pass of the entry raised in this run
update_processed_if_all_ok(record, log_id) ==
    IF \E k \in DOMAIN oplog :
           oplog[k].run = run /\ oplog[k].entry = log_id /\ ~oplog[k].ok
    THEN record
    ELSE [record EXCEPT !.entries =
            [k \in DOMAIN record.entries |->
                IF record.entries[k].id = log_id
                THEN [record.entries[k] EXCEPT !.processed = TRUE]
                ELSE record.entries[k]]]

\* the record written back as the run read it, with the flag set
update_processed_writeback(record, log_id) ==
    [record EXCEPT !.entries =
        [k \in DOMAIN snapshot |->
            IF snapshot[k].id = log_id
            THEN [snapshot[k] EXCEPT !.processed = TRUE]
            ELSE snapshot[k]]]

\* set() of the record instead of update(): the record is replaced
update_processed_replace(record, log_id) ==
    [record EXCEPT !.entries =
        [k \in 1..1 |-> [id |-> log_id, collection |-> NoField, doc |-> NoField,
                         type |-> NoField, processed |-> TRUE]]]

\* line 107: log_doc_ref.update({f"{log_id}.processed": True}) writes the one
\* field of the one entry of the stored record
update_processed(record, log_id) ==
    [record EXCEPT !.entries =
        [k \in DOMAIN record.entries |->
            IF record.entries[k].id = log_id
            THEN [record.entries[k] EXCEPT !.processed = TRUE]
            ELSE record.entries[k]]]

Init ==
    /\ src \in SrcChoices
    /\ \E d \in DestChoices : dests = [n \in Range(DestNames) |-> d]
    /\ config \in RegistryChoices
    /\ logs \in LogChoices
    /\ user_dbs = <<>>
    /\ pc = "idle"
    /\ cause = "none"
    /\ snapshot = <<>>
    /\ i = 1
    /\ j = 1
    /\ run = 0
    /\ oplog = <<>>
    /\ marks = {}
    /\ mutated = FALSE
    /\ failures = 0
    /\ dest0 = EmptyStore
    /\ after1 = EmptyStore
    /\ copies = 0

\* The process ends: normally, or through the except of __main__ (117-119),
\* or, at module level, with the uncaught exception.
Exit(why) ==
    /\ pc' = "exit"
    /\ cause' = why

\* Module load (lines 27-45): a process starts and builds the registry.
LoadRegistry ==
    /\ pc \in {"idle", "exit"}
    /\ run < MaxRuns
    /\ run' = run + 1
    /\ snapshot' = <<>>
    /\ i' = 1
    /\ j' = 1
    /\ mutated' = FALSE
    /\ IF ~config.exists
       THEN /\ user_dbs' = <<>>
            /\ pc' = "main"
            /\ cause' = "none"
       ELSE /\ user_dbs' = RegistryPrefix(config.entries)
            /\ IF RegistryRaises(config.entries)
               THEN Exit("startup_failed")
               ELSE pc' = "main" /\ cause' = "none"
    /\ UNCHANGED <<src, dests, config, logs, oplog, marks, failures>>
    /\ UNCHANGED copyVars

\* process_logs_for_day, lines 94-99: read the day's record.
ReadLogs ==
    /\ pc = "main"
    /\ IF ~logs.exists
       THEN /\ Exit("no_logs")
            /\ UNCHANGED snapshot
       ELSE /\ snapshot' = logs.entries
            /\ pc' = "loop"
            /\ UNCHANGED cause
    /\ UNCHANGED <<src, dests, config, logs, user_dbs, i, j, run, oplog, marks,
                   mutated, failures>>
    /\ UNCHANGED copyVars

\* line 100: the loop is over; process_logs_for_day returns.
EndOfLog ==
    /\ pc = "loop"
    /\ i > Len(snapshot)
    /\ Exit("completed")
    /\ UNCHANGED <<src, dests, config, logs, user_dbs, snapshot, i, j, run, oplog,
                   marks, mutated, failures>>
    /\ UNCHANGED copyVars

\* lines 101-102: an entry already processed is skipped.
SkipProcessed ==
    /\ pc = "loop"
    /\ i <= Len(snapshot)
    /\ is_processed(snapshot[i])
    /\ i' = i + 1
    /\ UNCHANGED <<src, dests, config, logs, user_dbs, pc, cause, snapshot, j, run,
                   oplog, marks, mutated, failures>>
    /\ UNCHANGED copyVars

\* line 103: the entry has no collection field; the KeyError leaves
\* process_logs_for_day and is caught in __main__ (lines 117-119).
PoisonEntry ==
    /\ pc = "loop"
    /\ i <= Len(snapshot)
    /\ ~is_processed(snapshot[i])
    /\ ~HasCollection(snapshot[i])
    /\ Exit("KeyError")
    /\ UNCHANGED <<src, dests, config, logs, user_dbs, snapshot, i, j, run, oplog,
                   marks, mutated, failures>>
    /\ UNCHANGED copyVars

\* lines 103-106: replicate_doc_to_all is called for the entry.
BeginFanOut ==
    /\ pc = "loop"
    /\ i <= Len(snapshot)
    /\ ~is_processed(snapshot[i])
    /\ HasCollection(snapshot[i])
    /\ j' = 1
    /\ pc' = IF user_dbs = <<>> THEN "mark" ELSE "fanout"
    /\ UNCHANGED <<src, dests, config, logs, user_dbs, cause, snapshot, i, run,
                   oplog, marks, mutated, failures>>
    /\ UNCHANGED copyVars

\* lines 73-91: one pass of the destination loop.  The pass runs to its end,
\* or a store call raises after n of its destination calls took effect:
\* because the call itself refuses (refused), or because the store or the
\* network fails (counted in failures).
ReplicateToDest ==
    /\ pc = "fanout"
    /\ LET e == snapshot[i]
           d == user_dbs[j]
           ops == replicate_ops(src, e)
           refused == IsDelete(e) /\ delete_raises(dests[d], <<e.collection, e.doc>>)
       IN \E ok \in BOOLEAN :
          \E n \in 0..Len(ops) :
             /\ IF ok THEN n = Len(ops) /\ ~refused
                ELSE IF refused THEN n = 0
                ELSE failures < MaxFailures /\ n \in FailPoints(src, e)
             /\ dests' = [dests EXCEPT ![d] = apply_ops(dests[d], ops, n)]
             /\ oplog' = Append(oplog, [run |-> run, entry |-> e.id, dest |-> d, ok |-> ok])
             /\ mutated' = (mutated \/ n > 0)
             /\ failures' = IF ok \/ refused THEN failures ELSE failures + 1
             /\ pc' = after_destination(ok).pc
             /\ j' = after_destination(ok).j
             /\ cause' = after_destination(ok).cause
    /\ UNCHANGED <<src, config, logs, user_dbs, snapshot, i, run, marks>>
    /\ UNCHANGED copyVars

\* line 107: the entry's flag is set in the stored record; the loop goes on.
MarkProcessed ==
    /\ pc = "mark"
    /\ logs' = update_processed(logs, snapshot[i].id)
    /\ marks' = marks \cup {[run |-> run, entry |-> snapshot[i].id]}
    /\ mutated' = TRUE
    /\ i' = i + 1
    /\ pc' = "loop"
    /\ UNCHANGED <<src, dests, config, user_dbs, cause, snapshot, j, run, oplog,
                   failures>>
    /\ UNCHANGED copyVars

\* line 107 raises (the store refuses the update): the exception leaves
\* process_logs_for_day and is caught in __main__ (lines 117-119).
MarkFails ==
    /\ pc = "mark"
    /\ failures < MaxFailures
    /\ failures' = failures + 1
    /\ Exit("update_failed")
    /\ UNCHANGED <<src, dests, config, logs, user_dbs, snapshot, i, j, run, oplog,
                   marks, mutated>>
    /\ UNCHANGED copyVars

\* The writer of the change log (another program; the log is append-only):
\* it adds an entry to the day's record while the run, which has read the
\* record, is handling an entry.
AppendLogEntry ==
    /\ pc \in {"fanout", "mark"}
    /\ logs.exists
    /\ Len(logs.entries) < MaxLogLen
    /\ logs' = [logs EXCEPT !.entries =
                   Append(@, LogEntry(Len(logs.entries) + 1,
                                      [collection |-> TopCollection, doc |-> TopIds[1],
                                       type |-> "update", processed |-> FALSE]))]
    /\ UNCHANGED <<src, dests, config, user_dbs, pc, cause, snapshot, i, j, run,
                   oplog, marks, mutated, failures>>
    /\ UNCHANGED copyVars

Next ==
    \/ LoadRegistry
    \/ ReadLogs
    \/ EndOfLog
    \/ SkipProcessed
    \/ PoisonEntry
    \/ BeginFanOut
    \/ ReplicateToDest
    \/ MarkProcessed
    \/ MarkFails
    \/ AppendLogEntry

Spec == Init /\ [][Next]_vars

----------------------------------------------------------------------------
(* Properties of the log processor and the fan-out (checked under Spec).   *)

\* the passes of the destination loop recorded for destination d
PassesAt(d) == SelectSeq(oplog, LAMBDA o : o.dest = d)

\* what was issued to d: the (run, entry) pairs of its passes, in order
Issued(d) ==
    [k \in DOMAIN PassesAt(d) |-> <<PassesAt(d)[k].run, PassesAt(d)[k].entry>>]

\* what was applied to d without error
Applied(d) ==
    LET okp == SelectSeq(PassesAt(d), LAMBDA o : o.ok)
    IN [k \in DOMAIN okp |-> <<okp[k].run, okp[k].entry>>]

\* the entries the current run has issued to d, in order
IssuedNow(d) ==
    LET mine == SelectSeq(PassesAt(d), LAMBDA o : o.run = run)
    IN [k \in DOMAIN mine |-> mine[k].entry]

FailedAt(r, e, d) ==
    \E k \in DOMAIN oplog :
        oplog[k].run = r /\ oplog[k].entry = e /\ oplog[k].dest = d /\ ~oplog[k].ok

\* the current process has read the day's record
LogsRead ==
    \/ pc \in {"loop", "fanout", "mark"}
    \/ pc = "exit" /\ cause \notin {"none", "no_logs", "startup_failed"}

\* the entries of the record read that were not processed and name a
\* collection, by id
Pending ==
    LET un == SelectSeq(snapshot, LAMBDA e : ~e.processed /\ HasCollection(e))
    IN [k \in DOMAIN un |-> un[k].id]

\* C1 as claimed: an entry whose flag a run has set was applied without error
\* at every destination of the registry in that run.
C1_MarkedOnlyIfAppliedEverywhere ==
    \A m \in marks : \A d \in Range(user_dbs) :
        \E k \in DOMAIN oplog :
            /\ oplog[k].run = m.run
            /\ oplog[k].entry = m.entry
            /\ oplog[k].dest = d
            /\ oplog[k].ok

\* C2: over any sequence of runs the log record is never removed, no entry
\* leaves it, and a processed flag that is true stays true.
C2_ProcessedNeverReset ==
    [][ logs.exists =>
          /\ logs'.exists
          /\ \A k \in DOMAIN logs.entries :
                \E m \in DOMAIN logs'.entries :
                    /\ logs'.entries[m].id = logs.entries[k].id
                    /\ logs.entries[k].processed => logs'.entries[m].processed ]_vars

\* C2 witness: a second run over the same day has finished, and found the
\* flag an earlier run had set for one entry of a record of several entries.
C2_Witness ==
    /\ run >= 2
    /\ pc = "exit"
    /\ cause = "completed"
    /\ Len(logs.entries) >= 2
    /\ \E m \in marks : \E k \in DOMAIN snapshot :
          m.run < run /\ snapshot[k].id = m.entry /\ snapshot[k].processed

\* C3 as claimed: what one run of process_logs_for_day issues to a single
\* destination is the record's unprocessed entries, each once, in stored order
\* (an entry without a collection names no operation and is not counted).
C3_OrderPreserved ==
    (pc = "exit" /\ LogsRead) =>
        \A d \in Range(user_dbs) : IssuedNow(d) = Pending

\* C4 as claimed: after a run any two destinations of the registry have had
\* the same sequence of entries applied without error.
C4_SameAppliedEverywhere ==
    pc = "exit" =>
        \A d1 \in Range(user_dbs) : \A d2 \in Range(user_dbs) :
            Applied(d1) = Applied(d2)

\* C4 amended: after a run any two destinations of the registry have been
\* issued the same sequence of entries in the same log order, also when an
\* entry failed at one of them; what was applied without error at the two
\* differs only by the entries that failed at one of them.
C4_SameIssuedEverywhere ==
    pc = "exit" =>
        \A d1 \in Range(user_dbs) : \A d2 \in Range(user_dbs) :
            /\ Issued(d1) = Issued(d2)
            /\ SelectSeq(Applied(d1), LAMBDA x : ~FailedAt(x[1], x[2], d2))
                 = SelectSeq(Applied(d2), LAMBDA x : ~FailedAt(x[1], x[2], d1))

\* C4 witness: a run has ended in which an entry failed at the first
\* destination and was applied at the second.
C4_Witness ==
    /\ pc = "exit"
    /\ Len(user_dbs) = 2
    /\ \E e \in 1..MaxLogLen :
          /\ FailedAt(run, e, user_dbs[1])
          /\ \E k \in DOMAIN Applied(user_dbs[2]) : Applied(user_dbs[2])[k] = <<run, e>>

\* entry number pos of the record read has been issued to every destination
\* by the current run, or its fan-out is under way and will reach the rest
FannedOut(pos) ==
    \A m \in DOMAIN user_dbs :
        \/ \E k \in DOMAIN oplog :
              /\ oplog[k].run = run
              /\ oplog[k].entry = snapshot[pos].id
              /\ oplog[k].dest = user_dbs[m]
        \/ pc = "fanout" /\ i = pos /\ j <= m

\* C5: a failure at destination D while entry e is applied does not keep e
\* from the other destinations (every one of them is issued e in the same
\* fan-out), and does not keep the following entry from being processed: once
\* e's flag is set the loop takes up the next entry and fans it out.  (The
\* run stops at e only when e's own flag update raises.)
C5_DestinationIsolation ==
    LogsRead =>
        \A pos \in DOMAIN snapshot :
            (\E d \in Range(user_dbs) : FailedAt(run, snapshot[pos].id, d)) =>
                /\ FannedOut(pos)
                /\ (/\ pos < Len(snapshot)
                    /\ ~snapshot[pos + 1].processed
                    /\ HasCollection(snapshot[pos + 1]))
                   => \/ i = pos /\ pc \in {"fanout", "mark"}
                      \/ i = pos /\ pc = "exit" /\ cause = "update_failed"
                      \/ i = pos + 1 /\ pc = "loop"
                      \/ i >= pos + 1 /\ FannedOut(pos + 1)

\* C5 witness: an entry failed at the first destination, was applied at the
\* second, and the entry after it was applied at both in the same run.
C5_Witness ==
    /\ LogsRead
    /\ Len(user_dbs) = 2
    /\ Len(snapshot) >= 2
    /\ FailedAt(run, snapshot[1].id, user_dbs[1])
    /\ \E k \in DOMAIN oplog :
          oplog[k] = [run |-> run, entry |-> snapshot[1].id, dest |-> user_dbs[2], ok |-> TRUE]
    /\ \A d \in Range(user_dbs) : \E k \in DOMAIN oplog :
          oplog[k] = [run |-> run, entry |-> snapshot[2].id, dest |-> d, ok |-> TRUE]

\* C6: a run over a record whose entries are all processed issues no write
\* and no delete to a destination and no update of the log record, and
\* starts no fan-out.
C6_AllProcessedNoMutation ==
    (LogsRead /\ \A k \in DOMAIN snapshot : snapshot[k].processed) =>
        /\ ~mutated
        /\ pc \notin {"fanout", "mark"}
        /\ \A d \in Range(user_dbs) : IssuedNow(d) = <<>>

\* C6 witness: a run with destinations has gone through a record of processed
\* entries to its end.
C6_Witness ==
    /\ pc = "exit"
    /\ cause = "completed"
    /\ snapshot # <<>>
    /\ \A k \in DOMAIN snapshot : snapshot[k].processed
    /\ user_dbs # <<>>
    /\ ~mutated

\* C7 as claimed: an error raised while one entry is handled does not halt
\* the batch: when the run has ended, every later entry of the record that
\* was unprocessed (and well-formed) has been fanned out and marked by it.
C7_PoisonDoesNotHalt ==
    (pc = "exit" /\ LogsRead /\ cause # "completed") =>
        \A k \in DOMAIN snapshot :
            (k > i /\ ~snapshot[k].processed /\ HasCollection(snapshot[k])) =>
                /\ \A d \in Range(user_dbs) :
                      \E n \in DOMAIN IssuedNow(d) : IssuedNow(d)[n] = snapshot[k].id
                /\ [run |-> run, entry |-> snapshot[k].id] \in marks

----------------------------------------------------------------------------
(* Properties of the collection copy and of the single operations          *)
(* (checked under Spec).                                                   *)

LastPass == oplog[Len(oplog)]

\* the state right after a pass of the destination loop for the entry the
\* loop is at: nothing has touched the destination of that pass since
JustPassed ==
    /\ pc \in {"fanout", "mark"}
    /\ oplog # <<>>
    /\ LastPass.run = run
    /\ LastPass.entry = snapshot[i].id

\* store d holds what the tree copy of source document p writes
TreeCopied(d, p) ==
    \A k \in DOMAIN copy_writes(src, p, p) :
        Carries(d[copy_writes(src, p, p)[k].path],
                ExistingDoc(copy_writes(src, p, p)[k].data))

\* C11 as claimed: after a pass for an entry without doc that raised no
\* error, every document of the source collection has been copied to the
\* destination, and the collection copy returned the number of documents of
\* the source collection.
C11_CollectionCopyCounts ==
    (JustPassed /\ ~HasDoc(snapshot[i]) /\ LastPass.ok) =>
        /\ \A x \in stream(src, <<>>, snapshot[i].collection) :
              TreeCopied(dests[LastPass.dest], <<snapshot[i].collection, x>>)
        /\ copy_entire_collection_returns(src, snapshot[i].collection)
              = <<Cardinality(stream(src, <<>>, snapshot[i].collection))>>

\* the first half of C11 and the count that is printed
C11_EveryDocumentCopied ==
    (JustPassed /\ ~HasDoc(snapshot[i]) /\ LastPass.ok) =>
        /\ \A x \in stream(src, <<>>, snapshot[i].collection) :
              TreeCopied(dests[LastPass.dest], <<snapshot[i].collection, x>>)
        /\ copy_entire_collection_count(src, snapshot[i].collection)
              = Cardinality({p \in TopPaths : p[1] = snapshot[i].collection /\ src[p].exists})

\* C12 as claimed: when a pass for an entry without doc raised while one
\* document was copied, every other document of the source collection has
\* been copied to that destination in the pass.
C12_EnumerationContinues ==
    (JustPassed /\ ~HasDoc(snapshot[i]) /\ ~LastPass.ok) =>
        \E x \in stream(src, <<>>, snapshot[i].collection) :
            \A y \in stream(src, <<>>, snapshot[i].collection) \ {x} :
                TreeCopied(dests[LastPass.dest], <<snapshot[i].collection, y>>)

\* C13 as claimed: once the registry has been built from a registry document,
\* every entry of the document with a valid credential is in user_dbs, and
\* the run has not ended on the credential of another entry.
C13_DecodeFailureScoped ==
    (run > 0 /\ config.exists) =>
        /\ \A k \in DOMAIN config.entries :
              config.entries[k].valid => config.entries[k].name \in Range(user_dbs)
        /\ ~(pc = "exit" /\ cause = "startup_failed")

\* C14 as claimed: a run without registry document mutates no store and marks
\* no entry of the log record.
C14_NoRegistryNoOp ==
    (run > 0 /\ ~config.exists) =>
        /\ ~mutated
        /\ \A m \in marks : m.run # run
        /\ \A k \in DOMAIN snapshot :
              (k <= Len(logs.entries) /\ ~snapshot[k].processed)
                  => ~logs.entries[k].processed

\* entry number k of the record read was not processed and named a
\* collection, and the loop of process_logs_for_day has gone past it
Passed(k) ==
    /\ LogsRead
    /\ k \in DOMAIN snapshot
    /\ k < i
    /\ ~snapshot[k].processed
    /\ HasCollection(snapshot[k])

\* the stored record holds the entry with this id, processed
ProcessedInRecord(id) ==
    \E m \in DOMAIN logs.entries :
        logs.entries[m].id = id /\ logs.entries[m].processed

\* C15: for a delete entry that names a document, the fan-out makes a pass at
\* every destination, and the document is absent at each destination whose
\* pass raised nothing; the delete itself never raises, also where the
\* document is not there (a pass only fails when the store or the network
\* does); and the entry is processed once the loop has gone past it.
C15_DeleteEverywhere ==
    /\ (pc = "mark" /\ IsDelete(snapshot[i])) =>
          \A d \in Range(user_dbs) :
              \E n \in DOMAIN oplog :
                  /\ oplog[n].run = run
                  /\ oplog[n].entry = snapshot[i].id
                  /\ oplog[n].dest = d
                  /\ oplog[n].ok => ~dests[d][<<snapshot[i].collection, snapshot[i].doc>>].exists
    /\ failures = 0 =>
          \A n \in DOMAIN oplog :
              (\E k \in DOMAIN logs.entries :
                  logs.entries[k].id = oplog[n].entry /\ IsDelete(logs.entries[k]))
                      => oplog[n].ok
    /\ \A k \in DOMAIN snapshot :
          (Passed(k) /\ IsDelete(snapshot[k])) => ProcessedInRecord(snapshot[k].id)

\* C15 witness: the first entry of the first run was a delete of a document
\* that no destination ever held; both passes raised nothing, the
\* destinations are as they were, and the entry is processed.
C15_Witness ==
    /\ run = 1
    /\ pc = "loop"
    /\ i = 2
    /\ IsDelete(snapshot[1])
    /\ Len(user_dbs) = 2
    /\ Len(oplog) = 2
    /\ \A n \in DOMAIN oplog : oplog[n].ok
    /\ \A d \in Range(user_dbs) : dests[d] = EmptyStore
    /\ ProcessedInRecord(snapshot[1].id)

\* C16: every unprocessed entry the loop has gone past is processed in the
\* stored record, whatever its passes did; and an entry a run has marked is
\* issued to no destination by any later run.
C16_MarkedDespiteFailure ==
    /\ \A k \in DOMAIN snapshot :
          Passed(k) => ProcessedInRecord(snapshot[k].id)
    /\ \A m \in marks : \A n \in DOMAIN oplog :
          oplog[n].entry = m.entry => oplog[n].run <= m.run

\* C16 witness: the pass of an entry failed at D1 in one run, the run marked
\* the entry, and a later run over the same record has completed.
C16_Witness ==
    /\ pc = "exit"
    /\ cause = "completed"
    /\ \E m \in marks :
          /\ m.run < run
          /\ FailedAt(m.run, m.entry, "D1")
          /\ ProcessedInRecord(m.entry)

\* the step is a pass of the destination loop that raised nothing
PassOk ==
    /\ pc = "fanout"
    /\ Len(oplog') = Len(oplog) + 1
    /\ oplog'[Len(oplog')].ok

\* C18: for an entry without doc, whatever its type, the fan-out makes a pass
\* at every destination, and a pass that raises nothing is the copy of the
\* whole collection: every document of the source collection is at the
\* destination afterwards, and no document of the destination is removed.
C18_NoDocCopiesCollection ==
    /\ [](( pc = "mark" /\ ~HasDoc(snapshot[i])) =>
            \A d \in Range(user_dbs) :
                \E n \in DOMAIN oplog :
                    oplog[n].run = run /\ oplog[n].entry = snapshot[i].id /\ oplog[n].dest = d)
    /\ [][ (PassOk /\ ~HasDoc(snapshot[i])) =>
             /\ \A x \in stream(src, <<>>, snapshot[i].collection) :
                   TreeCopied(dests'[user_dbs[j]], <<snapshot[i].collection, x>>)
             /\ \A p \in Paths :
                   dests[user_dbs[j]][p].exists => dests'[user_dbs[j]][p].exists
             /\ \A d \in Range(DestNames) \ {user_dbs[j]} : dests'[d] = dests[d] ]_vars

\* C18 witness: the fan-out of a delete entry without doc is over; both
\* destinations hold both documents of the source collection and the
\* document below the first, and neither pass raised.
C18_Witness ==
    /\ pc = "mark"
    /\ snapshot[i].type = "delete"
    /\ ~HasDoc(snapshot[i])
    /\ Len(user_dbs) = 2
    /\ src[P1].exists /\ src[P2].exists /\ src[P1Item].exists
    /\ \A d \in Range(user_dbs) :
          /\ Carries(dests[d][P1], src[P1])
          /\ Carries(dests[d][P2], src[P2])
          /\ Carries(dests[d][P1Item], src[P1Item])
          /\ \E n \in DOMAIN oplog :
                /\ oplog[n].run = run
                /\ oplog[n].entry = snapshot[i].id
                /\ oplog[n].dest = d
                /\ oplog[n].ok

\* C20: a pass of a delete entry with doc that raises nothing removes the
\* named top-level document at the destination of the pass and changes
\* nothing else: every other document of that destination, the documents of
\* the sub-collections of the removed one included, and every other
\* destination are as before.
C20_DeleteOnlyNamedDocument ==
    [][ (PassOk /\ IsDelete(snapshot[i])) =>
          dests' = [dests EXCEPT
                      ![user_dbs[j]][<<snapshot[i].collection, snapshot[i].doc>>] = MissingDoc]
      ]_vars

\* C20 witness: the first pass of the first run deleted a document of a
\* destination that held a document in a sub-collection of it; that document
\* is still there.
C20_Witness ==
    /\ JustPassed
    /\ run = 1
    /\ i = 1
    /\ Len(oplog) = 1
    /\ LastPass.ok
    /\ IsDelete(snapshot[1])
    /\ snapshot[1].doc = TopIds[1]
    /\ ~dests[LastPass.dest][P1].exists
    /\ dests[LastPass.dest][P1Item].exists

\* C19: the step that marks entry e leaves the record in place with the same
\* entries; of every entry, the one of e included, id, collection, doc and
\* type are as before, and the processed flag of every entry other than e is
\* as before; e's flag is true.  This includes the entries the record has
\* gained since the run read it.
C19_MarkWritesOneField ==
    [][ (pc = "mark" /\ pc' = "loop") =>
          /\ logs'.exists
          /\ DOMAIN logs'.entries = DOMAIN logs.entries
          /\ \A k \in DOMAIN logs.entries :
                /\ logs'.entries[k].id = logs.entries[k].id
                /\ logs'.entries[k].collection = logs.entries[k].collection
                /\ logs'.entries[k].doc = logs.entries[k].doc
                /\ logs'.entries[k].type = logs.entries[k].type
                /\ logs'.entries[k].processed =
                      IF logs.entries[k].id = snapshot[i].id
                      THEN TRUE ELSE logs.entries[k].processed
      ]_vars

\* C19 witness: the run has marked the one entry it read; the record gained
\* an entry while that entry was handled, and holds it, unprocessed, after
\* the mark.
C19_Witness ==
    /\ pc = "loop"
    /\ Len(snapshot) = 1
    /\ i = 2
    /\ [run |-> run, entry |-> snapshot[1].id] \in marks
    /\ Len(logs.entries) = 2
    /\ logs.entries[1].processed
    /\ ~logs.entries[2].processed

====
